---- MODULE Spec2Model ----
(***************************************************************************)
(* Takeoff aggregation and workbook synthesis of ResultsView.tsx.          *)
(*                                                                         *)
(* A string is a sequence of one-character strings, so that split, join,   *)
(* replace, includes and the number pattern are computed as the code       *)
(* computes them.  A JavaScript number is an integer here: the model does  *)
(* not represent floating-point rounding.                                  *)
(***************************************************************************)
EXTENDS Integers, Sequences, FiniteSets, TLC

VARIABLES
    items,           \* data.items: the takeoff batch handed to the view
    rebarItems,      \* data.rebarItems: the reinforcement batch
    searchTerm,      \* useState('')
    categoryFilter,  \* useState('All')
    unitPrices,      \* useState({}): display name -> number
    emitted,         \* the workbook written by the step that led here
    appState,        \* App: useState(AppState.UPLOAD)
    uploadedFile,    \* App: useState(null)
    takeoffData,     \* App: useState(null)
    error,           \* App: useState(null)
    reading,         \* the FileReaders whose readAsDataURL has not completed
    analyzing,       \* the generateTakeoff calls that have not settled
    selected         \* the number of files handed to handleFileSelect so far

viewVars == <<items, rebarItems, searchTerm, categoryFilter, unitPrices, emitted>>

appVars == <<appState, uploadedFile, takeoffData, error, reading, analyzing, selected>>

vars == <<items, rebarItems, searchTerm, categoryFilter, unitPrices, emitted,
          appState, uploadedFile, takeoffData, error, reading, analyzing, selected>>

(***************************************************************************)
(* Strings                                                                 *)
(***************************************************************************)
Range(s) == {s[i] : i \in 1..Len(s)}

SeqsUpTo(S, n) == UNION {[1..k -> S] : k \in 0..n}

\* s.startsWith(p) at 1-based position i
MatchesAt(s, p, i) ==
    /\ i + Len(p) - 1 <= Len(s)
    /\ \A k \in 1..Len(p) : s[i + k - 1] = p[k]

\* s.indexOf(p), 1-based; 0 when p does not occur
IndexOfStr(s, p) ==
    LET hits == {i \in 1..(Len(s) + 1) : MatchesAt(s, p, i)}
    IN  IF hits = {} THEN 0 ELSE CHOOSE i \in hits : \A j \in hits : i <= j

\* s.includes(p)
Includes(s, p) == IndexOfStr(s, p) # 0

UpperLetters == <<"A","B","C","D","E","F","G","H","I","J","K","L","M",
                  "N","O","P","Q","R","S","T","U","V","W","X","Y","Z">>
LowerLetters == <<"a","b","c","d","e","f","g","h","i","j","k","l","m",
                  "n","o","p","q","r","s","t","u","v","w","x","y","z">>
Digits       == <<"0","1","2","3","4","5","6","7","8","9">>
Punctuation  == <<" ", "_", "-", ",", ";", ":", "!", "?", ".", "'", "\"", "(", ")",
                  "*", "/", "+", "=", "|">>

\* the characters of the model's strings
Chars == Range(UpperLetters) \cup Range(LowerLetters) \cup Range(Digits)
             \cup Range(Punctuation)

PositionIn(seq, c) == CHOOSE i \in 1..Len(seq) : seq[i] = c

LowerOf == [c \in Chars |->
              IF c \in Range(UpperLetters)
              THEN LowerLetters[PositionIn(UpperLetters, c)] ELSE c]

UpperOf == [c \in Chars |->
              IF c \in Range(LowerLetters)
              THEN UpperLetters[PositionIn(LowerLetters, c)] ELSE c]

\* s.toLowerCase()
ToLowerCase(s) == [i \in 1..Len(s) |-> LowerOf[s[i]]]

\* s.toUpperCase()
ToUpperCase(s) == [i \in 1..Len(s) |-> UpperOf[s[i]]]

\* s.split(sep) for a non-empty separator string
RECURSIVE SplitStr(_, _)
SplitStr(s, sep) ==
    LET i == IndexOfStr(s, sep)
    IN  IF i = 0 THEN <<s>>
        ELSE <<SubSeq(s, 1, i - 1)>> \o SplitStr(SubSeq(s, i + Len(sep), Len(s)), sep)

\* parts.join(sep)
RECURSIVE JoinStr(_, _)
JoinStr(parts, sep) ==
    IF parts = <<>> THEN <<>>
    ELSE IF Len(parts) = 1 THEN parts[1]
    ELSE parts[1] \o sep \o JoinStr(Tail(parts), sep)

\* s.replace(p, '') with a string pattern: the first occurrence only
ReplaceFirst(s, p) ==
    LET i == IndexOfStr(s, p)
    IN  IF i = 0 THEN s
        ELSE SubSeq(s, 1, i - 1) \o SubSeq(s, i + Len(p), Len(s))

DigitSet == Range(Digits)

IsDigit(c) == c \in DigitSet

\* `${n}` for an integer n
RECURSIVE NatStr(_)
NatStr(n) ==
    IF n < 10 THEN <<Digits[n + 1]>>
    ELSE NatStr(n \div 10) \o <<Digits[(n % 10) + 1]>>

NumStr(n) == IF n < 0 THEN <<"-">> \o NatStr(0 - n) ELSE NatStr(n)

(***************************************************************************)
(* Program constants                                                       *)
(***************************************************************************)
SubStructure   == <<"S","u","b"," ","S","t","r","u","c","t","u","r","e">>
SuperStructure == <<"S","u","p","e","r"," ","S","t","r","u","c","t","u","r","e">>
Openings       == <<"O","p","e","n","i","n","g","s">>
FinishingWorks == <<"F","i","n","i","s","h","i","n","g"," ","W","o","r","k","s">>
Painting       == <<"P","a","i","n","t","i","n","g">>
Electrical     == <<"E","l","e","c","t","r","i","c","a","l">>
Mechanical     == <<"M","e","c","h","a","n","i","c","a","l">>
Sanitary       == <<"S","a","n","i","t","a","r","y">>

CATEGORY_ORDER ==
    <<SubStructure, SuperStructure, Openings, FinishingWorks,
      Painting, Electrical, Mechanical, Sanitary>>

All     == <<"A","l","l">>
General == <<"G","e","n","e","r","a","l">>
Delim   == <<" ","-"," ">>

\* the <select> of the category filter
categories == <<All>> \o CATEGORY_ORDER

\* CATEGORY_ORDER.indexOf(c), 0-based; -1 when absent
CategoryIndexOf(c) ==
    IF c \in Range(CATEGORY_ORDER)
    THEN (CHOOSE i \in 1..Len(CATEGORY_ORDER) : CATEGORY_ORDER[i] = c) - 1
    ELSE -1

UnknownRank == 999

(***************************************************************************)
(* String.prototype.localeCompare under the root collation: punctuation    *)
(* before digits before letters, letters compared without case first and   *)
(* lower case before upper case as the tie-break.                          *)
(***************************************************************************)
CollationOrder == Punctuation \o Digits \o LowerLetters

PrimaryWeight == [c \in Chars |-> PositionIn(CollationOrder, LowerOf[c])]

CaseWeight == [c \in Chars |-> IF c \in Range(UpperLetters) THEN 1 ELSE 0]

\* lexicographic comparison of two integer sequences: -1, 0 or 1
RECURSIVE LexCompare(_, _)
LexCompare(a, b) ==
    IF a = <<>> /\ b = <<>> THEN 0
    ELSE IF a = <<>> THEN -1
    ELSE IF b = <<>> THEN 1
    ELSE IF Head(a) < Head(b) THEN -1
    ELSE IF Head(a) > Head(b) THEN 1
    ELSE LexCompare(Tail(a), Tail(b))

LocaleCompare(a, b) ==
    LET pa == [i \in 1..Len(a) |-> PrimaryWeight[a[i]]]
        pb == [i \in 1..Len(b) |-> PrimaryWeight[b[i]]]
        p  == LexCompare(pa, pb)
    IN  IF p # 0 THEN p
        ELSE LexCompare([i \in 1..Len(a) |-> CaseWeight[a[i]]],
                        [i \in 1..Len(b) |-> CaseWeight[b[i]]])

(***************************************************************************)
(* Item classifier and grouping engine (groupedData)                       *)
(***************************************************************************)
\* PassesFilter with the search compared case-sensitively
PassesFilterCaseSensitive(item, term, filter) ==
    LET matchesSearch   == Includes(item.description, term)
        matchesCategory == filter = All \/ item.category = filter
    IN  matchesSearch /\ matchesCategory

\* the filter of one item
PassesFilter(item, term, filter) ==
    LET matchesSearch   == Includes(ToLowerCase(item.description), ToLowerCase(term))
        matchesCategory == filter = All \/ item.category = filter
    IN  matchesSearch /\ matchesCategory

\* ParseDescription keeping only the first segment as the name of a
\* description of three or more segments
ParseDescriptionFirstSegment(description) ==
    LET parts == SplitStr(description, Delim)
    IN  IF Len(parts) >= 3
        THEN LET last == parts[Len(parts)]
             IN  [groupName |-> parts[1],
                  axis      |-> IF last = <<>> THEN General ELSE last]
        ELSE IF Len(parts) = 2
        THEN [groupName |-> parts[1], axis |-> parts[2]]
        ELSE [groupName |-> description, axis |-> General]

\* ParseDescription without the branch for two segments
ParseDescriptionNoFallback(description) ==
    LET parts == SplitStr(description, Delim)
    IN  IF Len(parts) >= 3
        THEN LET last == parts[Len(parts)]
             IN  [groupName |-> JoinStr(SubSeq(parts, 1, Len(parts) - 1), Delim),
                  axis      |-> IF last = <<>> THEN General ELSE last]
        ELSE [groupName |-> description, axis |-> General]

\* description -> [groupName, axis]
ParseDescription(description) ==
    LET parts == SplitStr(description, Delim)
    IN  IF Len(parts) >= 3
        THEN LET last == parts[Len(parts)]
             IN  [groupName |-> JoinStr(SubSeq(parts, 1, Len(parts) - 1), Delim),
                  axis      |-> IF last = <<>> THEN General ELSE last]
        ELSE IF Len(parts) = 2
        THEN [groupName |-> parts[1], axis |-> parts[2]]
        ELSE [groupName |-> description, axis |-> General]

\* `${groupName}|${item.unit}|${item.category}`
GroupKey(groupName, item) ==
    groupName \o <<"|">> \o item.unit \o <<"|">> \o item.category

\* one iteration of data.items.forEach over the keyed object `groups`,
\* kept as a sequence of [key, value] entries in insertion order
AddItem(groups, item, term, filter) ==
    IF ~PassesFilter(item, term, filter) THEN groups
    ELSE
      LET parsed  == ParseDescription(item.description)
          key     == GroupKey(parsed.groupName, item)
          member  == [description |-> item.description, timesing |-> item.timesing,
                      dimension |-> item.dimension, quantity |-> item.quantity,
                      unit |-> item.unit, category |-> item.category,
                      axis |-> parsed.axis]
          created == IF \E i \in 1..Len(groups) : groups[i].key = key
                     THEN groups
                     ELSE Append(groups,
                            [key |-> key,
                             value |-> [name |-> parsed.groupName, unit |-> item.unit,
                                        category |-> item.category, items |-> <<>>,
                                        totalQuantity |-> 0]])
      IN  [i \in 1..Len(created) |->
             IF created[i].key = key
             THEN [created[i] EXCEPT
                     !.value.items = Append(@, member),
                     !.value.totalQuantity = @ + item.quantity]
             ELSE created[i]]

RECURSIVE GroupItems(_, _, _, _)
GroupItems(its, groups, term, filter) ==
    IF its = <<>> THEN groups
    ELSE GroupItems(Tail(its), AddItem(groups, Head(its), term, filter), term, filter)

\* Object.values(groups)
ObjectValues(groups) == [i \in 1..Len(groups) |-> groups[i].value]

\* CompareGroups without the comparison of the names
CompareGroupsCategoryOnly(a, b) ==
    LET idxA == CategoryIndexOf(a.category)
        idxB == CategoryIndexOf(b.category)
    IN  IF idxA # idxB
        THEN LET sortA == IF idxA = -1 THEN UnknownRank ELSE idxA
                 sortB == IF idxB = -1 THEN UnknownRank ELSE idxB
             IN  sortA - sortB
        ELSE 0

\* CompareGroups without the rank given to a category that is not listed
CompareGroupsRawIndex(a, b) ==
    LET idxA == CategoryIndexOf(a.category)
        idxB == CategoryIndexOf(b.category)
    IN  IF idxA # idxB
        THEN idxA - idxB
        ELSE LocaleCompare(a.name, b.name)

\* the comparator handed to sort
CompareGroups(a, b) ==
    LET idxA == CategoryIndexOf(a.category)
        idxB == CategoryIndexOf(b.category)
    IN  IF idxA # idxB
        THEN LET sortA == IF idxA = -1 THEN UnknownRank ELSE idxA
                 sortB == IF idxB = -1 THEN UnknownRank ELSE idxB
             IN  sortA - sortB
        ELSE LocaleCompare(a.name, b.name)

\* Array.prototype.sort is stable: an element goes after every element that
\* does not compare greater than it
InsertSorted(sorted, g) ==
    LET after == {i \in 1..Len(sorted) : CompareGroups(sorted[i], g) > 0}
        pos   == IF after = {} THEN Len(sorted) + 1
                 ELSE CHOOSE i \in after : \A j \in after : i <= j
    IN  SubSeq(sorted, 1, pos - 1) \o <<g>> \o SubSeq(sorted, pos, Len(sorted))

RECURSIVE SortGroups(_, _)
SortGroups(rest, sorted) ==
    IF rest = <<>> THEN sorted
    ELSE SortGroups(Tail(rest), InsertSorted(sorted, Head(rest)))

GroupedDataOf(its, term, filter) ==
    SortGroups(ObjectValues(GroupItems(its, <<>>, term, filter)), <<>>)

groupedData == GroupedDataOf(items, searchTerm, categoryFilter)

(***************************************************************************)
(* Rebar aggregator (rebarSummary)                                         *)
(***************************************************************************)
ReinforcementPrefix ==
    <<"R","e","i","n","f","o","r","c","e","m","e","n","t"," ",
      "B","a","r","s"," ","(","T","y","p","e"," ">>

Kg == <<"k","g">>

\* `Reinforcement Bars (Type ${type})`
SummaryName(type) == ReinforcementPrefix \o type \o <<")">>

\* AddWeight setting the weight of the record instead of adding it
AddWeightOverwriting(summaryMap, item) ==
    IF \E i \in 1..Len(summaryMap) : summaryMap[i].type = item.barType
    THEN [i \in 1..Len(summaryMap) |->
            IF summaryMap[i].type = item.barType
            THEN [summaryMap[i] EXCEPT !.weight = item.totalWeight]
            ELSE summaryMap[i]]
    ELSE Append(summaryMap, [type |-> item.barType, weight |-> item.totalWeight])

\* one iteration of forEach over summaryMap, a Map kept as a sequence of
\* [type, weight] entries in insertion order
AddWeight(summaryMap, item) ==
    IF \E i \in 1..Len(summaryMap) : summaryMap[i].type = item.barType
    THEN [i \in 1..Len(summaryMap) |->
            IF summaryMap[i].type = item.barType
            THEN [summaryMap[i] EXCEPT !.weight = @ + item.totalWeight]
            ELSE summaryMap[i]]
    ELSE Append(summaryMap, [type |-> item.barType, weight |-> 0 + item.totalWeight])

RECURSIVE SumWeights(_, _)
SumWeights(rebar, summaryMap) ==
    IF rebar = <<>> THEN summaryMap
    ELSE SumWeights(Tail(rebar), AddWeight(summaryMap, Head(rebar)))

InsertByName(sorted, r) ==
    LET after == {i \in 1..Len(sorted) : LocaleCompare(sorted[i].name, r.name) > 0}
        pos   == IF after = {} THEN Len(sorted) + 1
                 ELSE CHOOSE i \in after : \A j \in after : i <= j
    IN  SubSeq(sorted, 1, pos - 1) \o <<r>> \o SubSeq(sorted, pos, Len(sorted))

RECURSIVE SortByName(_, _)
SortByName(rest, sorted) ==
    IF rest = <<>> THEN sorted
    ELSE SortByName(Tail(rest), InsertByName(sorted, Head(rest)))

RebarSummaryOf(rebar) ==
    LET summaryMap == SumWeights(rebar, <<>>)
        mapped == [i \in 1..Len(summaryMap) |->
                     [name |-> SummaryName(summaryMap[i].type),
                      totalQuantity |-> summaryMap[i].weight,
                      unit |-> Kg]]
    IN  SortByName(mapped, <<>>)

rebarSummary == RebarSummaryOf(rebarItems)

\* the rebar records shown in the on-screen table
FilteredRebarOf(rebar, term) ==
    LET lowerSearch == ToLowerCase(term)
        Shown(item) ==
            \/ Includes(ToLowerCase(item.member), lowerSearch)
            \/ Includes(ToLowerCase(item.id), lowerSearch)
            \/ Includes(ToLowerCase(item.barType), lowerSearch)
    IN  SelectSeq(rebar, Shown)

filteredRebar == FilteredRebarOf(rebarItems, searchTerm)

(***************************************************************************)
(* Cost calculator (grandTotalCost, handleUnitPriceChange)                 *)
(***************************************************************************)
\* unitPrices[name] || 0
RateOf(prices, name) ==
    IF name \in DOMAIN prices /\ prices[name] # 0 THEN prices[name] ELSE 0

RECURSIVE AddAmounts(_, _, _)
AddAmounts(groups, prices, total) ==
    IF groups = <<>> THEN total
    ELSE AddAmounts(Tail(groups), prices,
                    total + Head(groups).totalQuantity * RateOf(prices, Head(groups).name))

\* GrandTotalOf without the loop over the rebar summaries
GrandTotalOfGroupsOnly(groups, summary, prices) ==
    AddAmounts(groups, prices, 0)

GrandTotalOf(groups, summary, prices) ==
    AddAmounts(summary, prices, AddAmounts(groups, prices, 0))

grandTotalCost == GrandTotalOf(groupedData, rebarSummary, unitPrices)

\* the value of the decimal digits s
RECURSIVE DigitsValue(_, _)
DigitsValue(s, acc) ==
    IF s = <<>> THEN acc
    ELSE DigitsValue(Tail(s), 10 * acc + (PositionIn(Digits, Head(s)) - 1))

\* the length of the run of digits of s that starts at position i
RECURSIVE DigitRun(_, _)
DigitRun(s, i) ==
    IF i <= Len(s) /\ IsDigit(s[i]) THEN 1 + DigitRun(s, i + 1) ELSE 0

\* the length of the run of blanks of s that starts at position i
RECURSIVE BlankRun(_, _)
BlankRun(s, i) ==
    IF i <= Len(s) /\ s[i] = " " THEN 1 + BlankRun(s, i + 1) ELSE 0

\* parseFloat(value) on strings without a fraction or an exponent:
\* leading blanks, a sign, then the longest run of digits
ParseFloat(value) ==
    LET start  == 1 + BlankRun(value, 1)
        signed == start <= Len(value) /\ value[start] \in {"+", "-"}
        first  == IF signed THEN start + 1 ELSE start
        run    == DigitRun(value, first)
        mag    == DigitsValue(SubSeq(value, first, first + run - 1), 0)
    IN  IF run = 0 THEN [isNaN |-> TRUE, value |-> 0]
        ELSE [isNaN |-> FALSE,
              value |-> IF signed /\ value[start] = "-" THEN 0 - mag ELSE mag]

\* SetPrice without the spread of the previous map
SetPriceDroppingOthers(prev, name, value) ==
    LET numValue == ParseFloat(value)
        stored   == IF numValue.isNaN THEN 0 ELSE numValue.value
    IN  [n \in {name} |-> stored]

\* {...prev, [name]: isNaN(numValue) ? 0 : numValue}
SetPrice(prev, name, value) ==
    LET numValue == ParseFloat(value)
        stored   == IF numValue.isNaN THEN 0 ELSE numValue.value
    IN  [n \in DOMAIN prev \cup {name} |-> IF n = name THEN stored ELSE prev[n]]

(***************************************************************************)
(* Dimension formula synthesizer                                           *)
(***************************************************************************)
DimSeparators == {"x", "X", "*"}

\* item.dimension.split(/[xX*]/)
RECURSIVE SplitDimension(_)
SplitDimension(s) ==
    LET seps == {i \in 1..Len(s) : s[i] \in DimSeparators}
    IN  IF seps = {} THEN <<s>>
        ELSE LET i == CHOOSE k \in seps : \A j \in seps : k <= j
             IN  <<SubSeq(s, 1, i - 1)>> \o SplitDimension(SubSeq(s, i + 1, Len(s)))

\* ([0-9]*[.])?[0-9]+ anchored at position j: the position of the last
\* character matched, 0 when there is no match.  The optional group is
\* tried first and given up when no digit follows the point.
MatchUnsigned(s, j) ==
    LET run  == DigitRun(s, j)
        dot  == j + run
        frac == DigitRun(s, dot + 1)
    IN  IF dot <= Len(s) /\ s[dot] = "." /\ frac >= 1 THEN dot + frac
        ELSE IF run >= 1 THEN j + run - 1
        ELSE 0

\* [+-]?([0-9]*[.])?[0-9]+ anchored at position i
MatchNumberAt(s, i) ==
    IF s[i] \in {"+", "-"} /\ MatchUnsigned(s, i + 1) # 0
    THEN MatchUnsigned(s, i + 1)
    ELSE MatchUnsigned(s, i)

\* part.match(/[+-]?([0-9]*[.])?[0-9]+/): <<match[0]>>, or <<>> for null
MatchNumber(part) ==
    LET starts == {i \in 1..Len(part) : MatchNumberAt(part, i) # 0}
    IN  IF starts = {} THEN <<>>
        ELSE LET i == CHOOSE k \in starts : \A j \in starts : k <= j
             IN  <<SubSeq(part, i, MatchNumberAt(part, i))>>

\* the loop that fills sanitizedParts
RECURSIVE SanitizeParts(_)
SanitizeParts(rawParts) ==
    IF rawParts = <<>> THEN <<>>
    ELSE MatchNumber(Head(rawParts)) \o SanitizeParts(Tail(rawParts))

\* QuantityCell that takes the split for valid when it has any part
QuantityCellRawParts(item) ==
    LET rawParts       == SplitDimension(item.dimension)
        sanitizedParts == SanitizeParts(rawParts)
        isValidCalc    == Len(rawParts) > 0
        timesingVal    == IF item.timesing # 0 THEN item.timesing ELSE 1
        timesingStr    == IF timesingVal # 1 THEN NumStr(timesingVal) \o <<"*">> ELSE <<>>
        formulaStr     == timesingStr \o JoinStr(sanitizedParts, <<"*">>)
    IN  IF isValidCalc
        THEN [t |-> "n", f |-> formulaStr, v |-> item.quantity]
        ELSE [t |-> "n", v |-> item.quantity]

\* QuantityCell that caches the quantity times the multiplier
QuantityCellRecomputed(item) ==
    LET sanitizedParts == SanitizeParts(SplitDimension(item.dimension))
        isValidCalc    == Len(sanitizedParts) > 0
        timesingVal    == IF item.timesing # 0 THEN item.timesing ELSE 1
        timesingStr    == IF timesingVal # 1 THEN NumStr(timesingVal) \o <<"*">> ELSE <<>>
        formulaStr     == timesingStr \o JoinStr(sanitizedParts, <<"*">>)
    IN  IF isValidCalc
        THEN [t |-> "n", f |-> formulaStr, v |-> timesingVal * item.quantity]
        ELSE [t |-> "n", v |-> item.quantity]

\* the cell of the value row of one member item
QuantityCell(item) ==
    LET sanitizedParts == SanitizeParts(SplitDimension(item.dimension))
        isValidCalc    == Len(sanitizedParts) > 0
        timesingVal    == IF item.timesing # 0 THEN item.timesing ELSE 1
        timesingStr    == IF timesingVal # 1 THEN NumStr(timesingVal) \o <<"*">> ELSE <<>>
        formulaStr     == timesingStr \o JoinStr(sanitizedParts, <<"*">>)
    IN  IF isValidCalc
        THEN [t |-> "n", f |-> formulaStr, v |-> item.quantity]
        ELSE [t |-> "n", v |-> item.quantity]

(***************************************************************************)
(* Workbook emitter (handleExport)                                         *)
(***************************************************************************)
TextCell(s)          == [t |-> "s", text |-> s]
createNumberCell(v)  == [t |-> "n", v |-> v]
createFormulaCell(f) == [t |-> "n", f |-> f]

Blank == TextCell(<<>>)

DimSheetRef == <<"'","D","i","m"," ","S","h","e","e","t","'","!">>

\* XLSX.utils.encode_cell({r, c}) for a column below 26
EncodeCell(r, c) == <<UpperLetters[c + 1]>> \o NumStr(r + 1)

QuantityColumn == 3

\* the two physical rows of one member item
ItemRows(item) ==
    << <<createNumberCell(IF item.timesing > 1 THEN item.timesing ELSE 1),
         TextCell(item.axis), TextCell(item.dimension), Blank>>,
       <<Blank, Blank, Blank, QuantityCell(item)>> >>

RECURSIVE MemberRows(_)
MemberRows(members) ==
    IF members = <<>> THEN <<>>
    ELSE ItemRows(Head(members)) \o MemberRows(Tail(members))

Subtotal == <<"S","U","B","T","O","T","A","L">>

\* EmitGroup with the address recorded inside the category-header branch
EmitGroupOncePerCategory(st, group) ==
    LET header == IF group.category # st.lastCat
                  THEN << <<Blank, TextCell(ToUpperCase(group.category)), Blank, Blank>> >>
                  ELSE <<>>
        name   == << <<Blank, TextCell(group.name), Blank, Blank>> >>
        body   == MemberRows(group.items)
        rowIdx == st.currentRowIdx + Len(header) + Len(name) + Len(body)
        addr   == DimSheetRef \o EncodeCell(rowIdx, QuantityColumn)
    IN  [dimRows |-> st.dimRows \o header \o name \o body
                       \o << <<Blank, TextCell(Subtotal), Blank,
                               createNumberCell(group.totalQuantity)>> >>
                       \o << <<>> >>,
         groupAddressMap |->
             IF group.category # st.lastCat
             THEN [n \in DOMAIN st.groupAddressMap \cup {group.name} |->
                     IF n = group.name THEN addr ELSE st.groupAddressMap[n]]
             ELSE st.groupAddressMap,
         lastCat |-> group.category,
         currentRowIdx |-> rowIdx + 2]

\* one iteration of groupedData.forEach over the locals of the Dim Sheet
EmitGroup(st, group) ==
    LET header == IF group.category # st.lastCat
                  THEN << <<Blank, TextCell(ToUpperCase(group.category)), Blank, Blank>> >>
                  ELSE <<>>
        name   == << <<Blank, TextCell(group.name), Blank, Blank>> >>
        body   == MemberRows(group.items)
        rowIdx == st.currentRowIdx + Len(header) + Len(name) + Len(body)
        addr   == DimSheetRef \o EncodeCell(rowIdx, QuantityColumn)
    IN  [dimRows |-> st.dimRows \o header \o name \o body
                       \o << <<Blank, TextCell(Subtotal), Blank,
                               createNumberCell(group.totalQuantity)>> >>
                       \o << <<>> >>,
         groupAddressMap |->
             [n \in DOMAIN st.groupAddressMap \cup {group.name} |->
                 IF n = group.name THEN addr ELSE st.groupAddressMap[n]],
         lastCat |-> group.category,
         currentRowIdx |-> rowIdx + 2]

RECURSIVE EmitGroups(_, _)
EmitGroups(groups, st) ==
    IF groups = <<>> THEN st
    ELSE EmitGroups(Tail(groups), EmitGroup(st, Head(groups)))

DimHeader ==
    <<TextCell(<<"T","i","m","e","s","i","n","g">>),
      TextCell(<<"D","e","s","c","r","i","p","t","i","o","n">>),
      TextCell(<<"D","i","m","e","n","s","i","o","n">>),
      TextCell(<<"Q","u","a","n","t","i","t","y">>)>>

DimSheetOf(groups) ==
    EmitGroups(groups,
               [dimRows |-> <<DimHeader>>,
                groupAddressMap |-> [n \in {} |-> <<>>],
                lastCat |-> <<>>,
                currentRowIdx |-> 1])

RebarHeader ==
    <<TextCell(<<"M","e","m","b","e","r">>),
      TextCell(<<"B","a","r"," ","M","a","r","k">>),
      TextCell(<<"T","y","p","e","/","S","i","z","e">>),
      TextCell(<<"S","h","a","p","e"," ","C","o","d","e">>),
      TextCell(<<"N","o","."," ","M","e","m","b","e","r","s">>),
      TextCell(<<"B","a","r","s","/","M","e","m","b","e","r">>),
      TextCell(<<"T","o","t","a","l"," ","B","a","r","s">>),
      TextCell(<<"L","e","n","g","t","h"," ","(","m",")">>),
      TextCell(<<"T","o","t","a","l"," ","L","e","n","g","t","h"," ","(","m",")">>),
      TextCell(<<"T","o","t","a","l"," ","W","e","i","g","h","t"," ","(","k","g",")">>)>>

RebarRow(item) ==
    <<TextCell(item.member), TextCell(item.id), TextCell(item.barType),
      TextCell(item.shapeCode), createNumberCell(item.noOfMembers),
      createNumberCell(item.barsPerMember), createNumberCell(item.totalBars),
      createNumberCell(item.lengthPerBar), createNumberCell(item.totalLength),
      createNumberCell(item.totalWeight)>>

\* RebarSheetOf over the records of the on-screen table
RebarSheetOfFiltered(rebar) ==
    LET shown == FilteredRebarOf(rebar, searchTerm)
    IN  <<RebarHeader>> \o [i \in 1..Len(shown) |-> RebarRow(shown[i])]

RebarSheetOf(rebar) == <<RebarHeader>> \o [i \in 1..Len(rebar) |-> RebarRow(rebar[i])]

BoqHeader ==
    <<TextCell(<<"I","t","e","m"," ","D","e","s","c","r","i","p","t","i","o","n">>),
      TextCell(<<"U","n","i","t">>),
      TextCell(<<"T","o","t","a","l"," ","Q","u","a","n","t","i","t","y">>),
      TextCell(<<"U","n","i","t"," ","R","a","t","e">>),
      TextCell(<<"T","o","t","a","l"," ","A","m","o","u","n","t">>)>>

BlankBoqRow == <<Blank, Blank, Blank, Blank, Blank>>

\* `C${excelRow}*D${excelRow}`
AmountFormula(excelRow) ==
    <<"C">> \o NumStr(excelRow) \o <<"*", "D">> \o NumStr(excelRow)

\* one iteration of groupedData.forEach over the locals of the BOQ sheet
BoqGroupRow(st, group, prices, groupAddressMap) ==
    LET rate     == RateOf(prices, group.name)
        qtyCell  == IF /\ group.name \in DOMAIN groupAddressMap
                       /\ groupAddressMap[group.name] # <<>>
                    THEN createFormulaCell(groupAddressMap[group.name])
                    ELSE createNumberCell(group.totalQuantity)
        excelRow == st.boqRowIndex + 1
    IN  [boqRows |-> Append(st.boqRows,
                        <<TextCell(group.name), TextCell(group.unit), qtyCell,
                          createNumberCell(rate),
                          createFormulaCell(AmountFormula(excelRow))>>),
         boqRowIndex |-> st.boqRowIndex + 1]

RECURSIVE BoqGroupRows(_, _, _, _)
BoqGroupRows(groups, st, prices, groupAddressMap) ==
    IF groups = <<>> THEN st
    ELSE BoqGroupRows(Tail(groups),
                      BoqGroupRow(st, Head(groups), prices, groupAddressMap),
                      prices, groupAddressMap)

SumIfHead ==
    <<"S","U","M","I","F","(","'","R","e","b","a","r"," ","S","c","h","e","d",
      "u","l","e","'","!","C",":","C",","," ","\"">>
SumIfTail ==
    <<"\"",","," ","'","R","e","b","a","r"," ","S","c","h","e","d","u","l","e",
      "'","!","J",":","J",")">>

\* r.name.replace('Reinforcement Bars (Type ', '').replace(')', '')
BarTypeOfName(name) == ReplaceFirst(ReplaceFirst(name, ReinforcementPrefix), <<")">>)

SumIfFormula(barType) == SumIfHead \o barType \o SumIfTail

\* one iteration of rebarSummary.forEach
BoqRebarRow(st, r, prices) ==
    LET rate     == RateOf(prices, r.name)
        barType  == BarTypeOfName(r.name)
        excelRow == st.boqRowIndex + 1
    IN  [boqRows |-> Append(st.boqRows,
                        <<TextCell(r.name), TextCell(r.unit),
                          createFormulaCell(SumIfFormula(barType)),
                          createNumberCell(rate),
                          createFormulaCell(AmountFormula(excelRow))>>),
         boqRowIndex |-> st.boqRowIndex + 1]

RECURSIVE BoqRebarRows(_, _, _)
BoqRebarRows(summary, st, prices) ==
    IF summary = <<>> THEN st
    ELSE BoqRebarRows(Tail(summary), BoqRebarRow(st, Head(summary), prices), prices)

RebarSummaryLabel == <<"R","E","B","A","R"," ","S","U","M","M","A","R","Y">>
GrandTotalLabel   == <<"G","R","A","N","D"," ","T","O","T","A","L">>

\* GrandTotalFormula that takes boqRowIndex for a 0-based index
GrandTotalFormulaNextRow(boqRowIndex) ==
    <<"S","U","M","(","E","2",":","E">> \o NumStr(boqRowIndex + 1) \o <<")">>

\* `SUM(E2:E${boqRowIndex})`
GrandTotalFormula(boqRowIndex) ==
    <<"S","U","M","(","E","2",":","E">> \o NumStr(boqRowIndex) \o <<")">>

\* BoqSheetOf without boqRowIndex += 2 after the spacer and the section label
BoqSheetOfNoSkip(groups, summary, prices, groupAddressMap) ==
    LET afterGroups == BoqGroupRows(groups, [boqRows |-> <<BoqHeader>>, boqRowIndex |-> 1],
                                    prices, groupAddressMap)
        afterRebar  ==
            IF Len(summary) > 0
            THEN BoqRebarRows(summary,
                   [boqRows |-> afterGroups.boqRows
                                  \o <<BlankBoqRow,
                                       <<TextCell(RebarSummaryLabel),
                                         Blank, Blank, Blank, Blank>> >>,
                    boqRowIndex |-> afterGroups.boqRowIndex],
                   prices)
            ELSE afterGroups
    IN  afterRebar.boqRows
          \o <<BlankBoqRow,
               <<TextCell(GrandTotalLabel), Blank, Blank, Blank,
                 createFormulaCell(GrandTotalFormula(afterRebar.boqRowIndex))>> >>

BoqSheetOf(groups, summary, prices, groupAddressMap) ==
    LET afterGroups == BoqGroupRows(groups, [boqRows |-> <<BoqHeader>>, boqRowIndex |-> 1],
                                    prices, groupAddressMap)
        afterRebar  ==
            IF Len(summary) > 0
            THEN BoqRebarRows(summary,
                   [boqRows |-> afterGroups.boqRows
                                  \o <<BlankBoqRow,
                                       <<TextCell(RebarSummaryLabel),
                                         Blank, Blank, Blank, Blank>> >>,
                    boqRowIndex |-> afterGroups.boqRowIndex + 2],
                   prices)
            ELSE afterGroups
    IN  afterRebar.boqRows
          \o <<BlankBoqRow,
               <<TextCell(GrandTotalLabel), Blank, Blank, Blank,
                 createFormulaCell(GrandTotalFormula(afterRebar.boqRowIndex))>> >>

NoWorkbook == [written |-> FALSE]

\* the three sheets handed to XLSX.writeFile, with the address map of the pass
WorkbookOf(groups, rebar, summary, prices) ==
    LET dim == DimSheetOf(groups)
    IN  [written |-> TRUE,
         dimRows |-> dim.dimRows,
         groupAddressMap |-> dim.groupAddressMap,
         rebarRows |-> RebarSheetOf(rebar),
         boqRows |-> BoqSheetOf(groups, summary, prices, dim.groupAddressMap)]

(***************************************************************************)
(* Inputs                                                                  *)
(***************************************************************************)
MaxItems      == 2
MaxDimLen     == 4
MaxBarTypeLen == 3
MaxDescLen    == 8
MaxKeyLen     == 2
MaxSortItems  == 3
MaxRawLen     == 2
MaxCatItems   == 3
MaxTimesing   == 2
MaxSelections == 2

Metre       == <<"m">>
SquareMetre == <<"m","2">>
Misc        == <<"M","i","s","c">>
ExternalWorks == <<"E","x","t","e","r","n","a","l"," ","W","o","r","k","s">>

Item(description, timesing, dimension, quantity, unit, category) ==
    [description |-> description, timesing |-> timesing, dimension |-> dimension,
     quantity |-> quantity, unit |-> unit, category |-> category]

\* descriptions with one, two and three segments; the same group name under
\* two units and under two categories; a category outside CATEGORY_ORDER
ItemPool ==
    { Item(<<"a"," ","-"," ","B">>, 1, <<"2","x","3">>, 6, Metre, Painting),
      Item(<<"a"," ","-"," ","d">>, 2, <<"1",".","5","m"," ","x"," ","2">>, 5, Metre, Painting),
      Item(<<"a"," ","-"," ","c">>, 1, <<"-">>, 2, SquareMetre, Painting),
      Item(<<"a">>, 3, <<>>, 3, Metre, SubStructure),
      Item(<<"b"," ","-"," ","a"," ","-"," ","c">>, 0, <<"4","*","2">>, 1, Metre, SubStructure),
      Item(<<"B">>, 1, <<"3","X","3">>, 4, Metre, Misc) }

Rebar(member, id, barType, totalWeight) ==
    [member |-> member, id |-> id, barType |-> barType, shapeCode |-> <<"0","0">>,
     noOfMembers |-> 1, barsPerMember |-> 2, totalBars |-> 2, lengthPerBar |-> 3,
     totalLength |-> 6, totalWeight |-> totalWeight]

\* no record, one record, and two bar types of which one occurs twice
RebarBatches ==
    { <<>>,
      <<Rebar(<<"C","1">>, <<"0","1">>, <<"Y","1","2">>, 7)>>,
      <<Rebar(<<"C","1">>, <<"0","1">>, <<"Y","1","2">>, 7),
        Rebar(<<"C","1">>, <<"0","3">>, <<"R","8">>, 5),
        Rebar(<<"C","2">>, <<"0","2">>, <<"Y","1","2">>, 9)>> }

SearchTermPool == { <<>>, <<"B">> }
FilterPool     == { All, Painting }
RawPricePool   == { <<"2">> }

\* the names that have a price input on screen
DisplayedNames ==
    LET groups  == groupedData
        summary == rebarSummary
    IN  {groups[i].name : i \in 1..Len(groups)}
            \cup {summary[i].name : i \in 1..Len(summary)}

(***************************************************************************)
(* The view: state after mounting, and its handlers.                       *)
(*                                                                         *)
(* handleExport keeps no state: it builds the workbook and hands it to     *)
(* XLSX.writeFile.  `emitted` is that output: the workbook written by the  *)
(* step just taken, with the address map the pass built, and NoWorkbook    *)
(* after a step that wrote none.  In a state where a workbook is emitted   *)
(* the rest of the state is the snapshot the pass ran over.                *)
(***************************************************************************)
\* null, as a value that compares with every record
Null == [null |-> TRUE]

\* a File: its name, its MIME type and its size in units of 10^8 bytes
File(name, type, size) == [name |-> name, type |-> type, size |-> size]

PlanA    == File(<<"A",".","p","d","f">>, "application/pdf", 1)
PlanB    == File(<<"B",".","p","n","g">>, "image/png", 1)
Notes    == File(<<"C",".","t","x","t">>, "text/plain", 1)
Oversize == File(<<"D",".","p","d","f">>, "application/pdf", 101)
Drawing  == File(<<"E",".","D","W","G">>, "", 1)

FilePool == {PlanA, PlanB, Notes, Oversize, Drawing}

\* the UploadedFile made of a File that was read; data stands for the
\* base64 text of the file's content, one text per file
Uploaded(file) == [name |-> file.name, type |-> file.type, data |-> file.name]

\* what generateTakeoff resolves to for a base64 text: a result that is
\* the takeoff of that text
TakeoffOf(base64Data) == [source |-> base64Data]

\* the state of a ResultsView that has just been mounted
ViewMounted ==
    /\ searchTerm = <<>>
    /\ categoryFilter = All
    /\ unitPrices = [n \in {} |-> 0]
    /\ emitted = NoWorkbook

\* the App shows the results of one analysed file: items and rebarItems
\* are the content of takeoffData
Mounted ==
    /\ ViewMounted
    /\ appState = "RESULTS"
    /\ uploadedFile = Uploaded(PlanA)
    /\ takeoffData = TakeoffOf(Uploaded(PlanA).data)
    /\ error = Null
    /\ reading = {}
    /\ analyzing = {}
    /\ selected = 0

Init ==
    /\ items \in SeqsUpTo(ItemPool, MaxItems)
    /\ rebarItems \in RebarBatches
    /\ Mounted

\* one item whose multiplier and dimension text vary, followed by a fixed
\* item of the same group
DimAlphabet  == {"1", "2", ".", "-", "x", "m"}
TimesingPool == {0, 1, 2}

InitDim ==
    /\ \E timesing \in TimesingPool, dimension \in SeqsUpTo(DimAlphabet, MaxDimLen) :
           items = <<Item(<<"a"," ","-"," ","p">>, timesing, dimension, 7, Metre, Painting),
                     Item(<<"a"," ","-"," ","q">>, 2, <<"2"," ","X"," ","+","3","*","1">>,
                          5, Metre, Painting)>>
    /\ rebarItems = <<>>
    /\ Mounted

\* one record whose bar type varies, alone or followed by a fixed record
BarTypeAlphabet == {"Y", "1", "(", ")"}

InitRebar ==
    /\ items = <<>>
    /\ \E barType \in SeqsUpTo(BarTypeAlphabet, MaxBarTypeLen) :
           rebarItems \in
               { <<Rebar(<<"C","1">>, <<"0","1">>, barType, 7)>>,
                 <<Rebar(<<"C","1">>, <<"0","1">>, barType, 7),
                   Rebar(<<"C","2">>, <<"0","2">>, <<"Y","1">>, 9)>> }
    /\ Mounted

\* one item whose description varies
DescAlphabet == {"a", " ", "-"}

InitDesc ==
    /\ \E description \in SeqsUpTo(DescAlphabet, MaxDescLen) :
           items = <<Item(description, 1, <<"2">>, 2, Metre, Painting)>>
    /\ rebarItems = <<>>
    /\ Mounted

\* two items whose descriptions, units and categories vary
NameAlphabet == {"a", "|"}
UnitAlphabet == {"m", "|"}

InitKey ==
    /\ \E d1, d2 \in SeqsUpTo(NameAlphabet, MaxKeyLen),
          u1, u2 \in SeqsUpTo(UnitAlphabet, MaxKeyLen),
          category \in {Painting, Misc} :
           items = <<Item(d1, 1, <<"2">>, 2, u1, Painting),
                     Item(d2, 1, <<"3">>, 3, u2, category)>>
    /\ rebarItems = <<>>
    /\ Mounted

\* items of listed and unlisted categories, one group each
SortPool ==
    { Item(<<"b">>, 1, <<"2">>, 2, Metre, Painting),
      Item(<<"a">>, 1, <<"3">>, 3, Metre, SubStructure),
      Item(<<"c">>, 1, <<"4">>, 4, Metre, Misc),
      Item(<<"a">>, 1, <<"5">>, 5, Metre, ExternalWorks),
      Item(<<"b">>, 1, <<"6">>, 6, Metre, Misc),
      Item(<<"c">>, 1, <<"7">>, 7, Metre, Sanitary) }

InitSort ==
    /\ items \in SeqsUpTo(SortPool, MaxSortItems)
    /\ rebarItems = <<>>
    /\ Mounted

\* two groups and one rebar summary to price, and the texts handed to the
\* price handler
RawAlphabet == {"2", "-", "a", " "}
RawInputs   == SeqsUpTo(RawAlphabet, MaxRawLen)

InitPrice ==
    /\ items = <<Item(<<"a">>, 1, <<"2">>, 2, Metre, Painting),
                 Item(<<"b">>, 1, <<"3">>, 3, Metre, Painting)>>
    /\ rebarItems = <<Rebar(<<"C","1">>, <<"0","1">>, <<"Y","1","2">>, 7)>>
    /\ Mounted

\* items of one listed category, of two unlisted categories whose group
\* names alternate, and of the empty category
CategoryPool ==
    { Item(<<"a">>, 1, <<"2">>, 2, Metre, Misc),
      Item(<<"b">>, 1, <<"3">>, 3, Metre, ExternalWorks),
      Item(<<"c">>, 1, <<"4">>, 4, Metre, Misc),
      Item(<<"b">>, 1, <<"5">>, 5, Metre, Painting),
      Item(<<"a", " ", "-", " ", "p">>, 2, <<"6">>, 6, Metre, Painting),
      Item(<<"d">>, 1, <<"7">>, 7, Metre, <<>>) }

InitCategory ==
    /\ items \in SeqsUpTo(CategoryPool, MaxCatItems)
    /\ rebarItems = <<>>
    /\ Mounted

\* two items of one group whose multipliers and dimension texts vary
TimesingRange == (0 - MaxTimesing)..MaxTimesing
DimensionPool == { <<"2", "x", "3">>, <<"3">>, <<"-">> }

InitTimesing ==
    /\ \E t1, t2 \in TimesingRange, d1, d2 \in DimensionPool :
           items = <<Item(<<"a"," ","-"," ","p">>, t1, d1, 6, Metre, Painting),
                     Item(<<"a"," ","-"," ","q">>, t2, d2, 5, Metre, Painting)>>
    /\ rebarItems = <<>>
    /\ Mounted

setSearchTerm ==
    \E text \in SearchTermPool :
        /\ searchTerm' = text
        /\ emitted' = NoWorkbook
        /\ UNCHANGED <<items, rebarItems, categoryFilter, unitPrices>>
        /\ UNCHANGED appVars

setCategoryFilter ==
    \E category \in FilterPool :
        /\ categoryFilter' = category
        /\ emitted' = NoWorkbook
        /\ UNCHANGED <<items, rebarItems, searchTerm, unitPrices>>
        /\ UNCHANGED appVars

handleUnitPriceChange ==
    \E name \in DisplayedNames, value \in RawPricePool :
        /\ unitPrices' = SetPrice(unitPrices, name, value)
        /\ emitted' = NoWorkbook
        /\ UNCHANGED <<items, rebarItems, searchTerm, categoryFilter>>
        /\ UNCHANGED appVars

\* handleUnitPriceChange called with any text
handleUnitPriceChangeAnyText ==
    \E name \in DisplayedNames, value \in RawInputs :
        /\ unitPrices' = SetPrice(unitPrices, name, value)
        /\ emitted' = NoWorkbook
        /\ UNCHANGED <<items, rebarItems, searchTerm, categoryFilter>>
        /\ UNCHANGED appVars

handleExport ==
    /\ emitted' = WorkbookOf(groupedData, rebarItems, rebarSummary, unitPrices)
    /\ UNCHANGED <<items, rebarItems, searchTerm, categoryFilter, unitPrices>>
    /\ UNCHANGED appVars

(***************************************************************************)
(* The App (App.tsx): the upload screen, the analysis in flight and the    *)
(* results screen.  A handler runs to its first await in one step; the     *)
(* completion of a FileReader and the settling of generateTakeoff are      *)
(* steps of their own, taken in any order.                                 *)
(***************************************************************************)
validTypes == {"image/png", "image/jpeg", "application/pdf"}

\* 100 * 10000 * 10000 bytes, in units of 10^8 bytes
SizeLimit == 100


\* the results branch of the render: ResultsView is on screen
ResultsShown == appState = "RESULTS" /\ takeoffData # Null /\ uploadedFile # Null

InitApp ==
    /\ items = <<>>
    /\ rebarItems = <<>>
    /\ ViewMounted
    /\ appState = "UPLOAD"
    /\ uploadedFile = Null
    /\ takeoffData = Null
    /\ error = Null
    /\ reading = {}
    /\ analyzing = {}
    /\ selected = 0

\* FileUpload, on screen in the UPLOAD state, hands a file over
handleFileSelect ==
    /\ appState = "UPLOAD"
    /\ selected < MaxSelections
    /\ \E file \in FilePool :
           /\ selected' = selected + 1
           /\ IF file.type \notin validTypes
              THEN error' = [message |-> "Unsupported file format. Please upload PDF, PNG, or JPG."] /\ reading' = reading
              ELSE IF file.size > SizeLimit
              THEN error' = [message |-> "File is too large. Please upload a file smaller than 10MB."] /\ reading' = reading
              ELSE /\ error' = Null
                   /\ reading' = reading \cup {[id |-> selected + 1, file |-> file]}
    /\ UNCHANGED <<appState, uploadedFile, takeoffData, analyzing>>
    /\ UNCHANGED viewVars

\* reader.onload, up to the await of generateTakeoff
readerOnload ==
    /\ \E r \in reading :
           /\ reading' = reading \ {r}
           /\ uploadedFile' = Uploaded(r.file)
           /\ appState' = "ANALYZING"
           /\ analyzing' = analyzing \cup {[id |-> r.id, base64Data |-> Uploaded(r.file).data]}
    /\ UNCHANGED <<takeoffData, error, selected>>
    /\ UNCHANGED viewVars

readerOnerror ==
    /\ \E r \in reading :
           /\ reading' = reading \ {r}
           /\ error' = [message |-> "Error reading file."]
    /\ UNCHANGED <<appState, uploadedFile, takeoffData, analyzing, selected>>
    /\ UNCHANGED viewVars

\* generateTakeoff resolves: the rest of the try block
generateTakeoffResolved ==
    /\ \E a \in analyzing :
           /\ analyzing' = analyzing \ {a}
           /\ takeoffData' = TakeoffOf(a.base64Data)
           /\ appState' = "RESULTS"
    /\ UNCHANGED <<uploadedFile, error, reading, selected>>
    /\ UNCHANGED viewVars

\* generateTakeoff rejects: the catch block
generateTakeoffRejected ==
    /\ \E a \in analyzing :
           /\ analyzing' = analyzing \ {a}
           /\ error' = [message |-> "Failed to analyze document. Please ensure the API Key is valid and the image is clear."]
           /\ appState' = "UPLOAD"
    /\ UNCHANGED <<uploadedFile, takeoffData, reading, selected>>
    /\ UNCHANGED viewVars

\* onReset of ResultsView, which is on screen when the results are shown
handleReset ==
    /\ ResultsShown
    /\ appState' = "UPLOAD"
    /\ uploadedFile' = Null
    /\ takeoffData' = Null
    /\ error' = Null
    /\ UNCHANGED <<reading, analyzing, selected>>
    /\ UNCHANGED viewVars

NextApp ==
    \/ handleFileSelect
    \/ readerOnload
    \/ readerOnerror
    \/ generateTakeoffResolved
    \/ generateTakeoffRejected
    \/ handleReset

SpecApp == InitApp /\ [][NextApp]_vars

(***************************************************************************)
(* The App with the instructions step (src/unnamed/part_002): a file that  *)
(* was read leads to the INSTRUCTIONS screen, and the analysis starts from *)
(* there.                                                                  *)
(***************************************************************************)
validMimeTypes  == {"image/png", "image/jpeg", "application/pdf", "application/x-pdf"}
validExtensions == { <<".","d","w","g">>, <<".","d","x","f">> }

\* '.' + name.split('.').pop()?.toLowerCase()
FileExtensionOf(name) ==
    LET parts == SplitStr(name, <<".">>)
    IN  <<".">> \o ToLowerCase(parts[Len(parts)])

\* 100 * 1024 * 1024 bytes, in units of 10^8 bytes, for sizes that are
\* whole numbers of units
SizeLimitWithInstructions == 1


\* the instructions branch of the render: InstructionView is on screen
InstructionsShown == appState = "INSTRUCTIONS" /\ uploadedFile # Null

handleFileSelectWithInstructions ==
    /\ appState = "UPLOAD"
    /\ selected < MaxSelections
    /\ \E file \in FilePool :
           LET isValidType == \/ file.type \in validMimeTypes
                              \/ FileExtensionOf(file.name) \in validExtensions
           IN  /\ selected' = selected + 1
               /\ IF ~isValidType
                  THEN error' = [message |-> "Unsupported file format. Please upload PDF, PNG, JPG, or DWG."] /\ reading' = reading
                  ELSE IF file.size > SizeLimitWithInstructions
                  THEN error' = [message |-> "File is too large. Please upload a file smaller than 100MB."] /\ reading' = reading
                  ELSE /\ error' = Null
                       /\ reading' = reading \cup {[id |-> selected + 1, file |-> file]}
    /\ UNCHANGED <<appState, uploadedFile, takeoffData, analyzing>>
    /\ UNCHANGED viewVars

\* reader.onload: the file is stored and the instructions are asked for
readerOnloadWithInstructions ==
    /\ \E r \in reading :
           /\ reading' = reading \ {r}
           /\ uploadedFile' =
                  [Uploaded(r.file) EXCEPT
                      !.type = IF r.file.type # "" THEN r.file.type
                               ELSE "application/octet-stream"]
           /\ appState' = "INSTRUCTIONS"
    /\ UNCHANGED <<takeoffData, error, analyzing, selected>>
    /\ UNCHANGED viewVars

\* onStart of InstructionView, up to the await of generateTakeoff
handleStartAnalysis ==
    /\ InstructionsShown
    /\ appState' = "ANALYZING"
    /\ analyzing' = analyzing
                       \cup {[id |-> Cardinality(analyzing) + 1,
                               base64Data |-> uploadedFile.data]}
    /\ UNCHANGED <<uploadedFile, takeoffData, error, reading, selected>>
    /\ UNCHANGED viewVars

generateTakeoffRejectedWithInstructions ==
    /\ \E a \in analyzing :
           /\ analyzing' = analyzing \ {a}
           /\ error' = [message |-> "Failed to analyze document. Please ensure the file is a valid PDF, Image, or standard DWG."]
           /\ appState' = "UPLOAD"
    /\ UNCHANGED <<uploadedFile, takeoffData, reading, selected>>
    /\ UNCHANGED viewVars

\* onCancel of InstructionView and onReset of ResultsView
handleResetWithInstructions ==
    /\ InstructionsShown \/ ResultsShown
    /\ appState' = "UPLOAD"
    /\ uploadedFile' = Null
    /\ takeoffData' = Null
    /\ error' = Null
    /\ UNCHANGED <<reading, analyzing, selected>>
    /\ UNCHANGED viewVars

NextAppWithInstructions ==
    \/ handleFileSelectWithInstructions
    \/ readerOnloadWithInstructions
    \/ readerOnerror
    \/ handleStartAnalysis
    \/ generateTakeoffResolved
    \/ generateTakeoffRejectedWithInstructions
    \/ handleResetWithInstructions

SpecAppWithInstructions == InitApp /\ [][NextAppWithInstructions]_vars

Next ==
    \/ setSearchTerm
    \/ setCategoryFilter
    \/ handleUnitPriceChange
    \/ handleExport

Spec == Init /\ [][Next]_vars

\* the synthesizer alone, over every dimension text of the alphabet
SpecDim == InitDim /\ [][handleExport]_vars

\* the emitter alone, over every bar type of the alphabet
SpecRebar == InitRebar /\ [][handleExport]_vars

\* the classifier alone, over every description of the alphabet
SpecDesc == InitDesc /\ [][handleExport]_vars

\* the grouping engine alone, over every pair of names and units
SpecKey == InitKey /\ [][handleExport]_vars

\* the sort of the groups alone, over batches of several categories
SpecSort == InitSort /\ [][handleExport]_vars

\* the price handler and the export, over every text of the alphabet
NextPrice ==
    \/ handleUnitPriceChangeAnyText
    \/ handleExport

SpecPrice == InitPrice /\ [][NextPrice]_vars

\* the Dim Sheet emitter alone, over batches of several categories
SpecCategory == InitCategory /\ [][handleExport]_vars

\* the logic row and the formula, over every multiplier of the range
SpecTimesing == InitTimesing /\ [][handleExport]_vars

(***************************************************************************)
(* Properties                                                              *)
(***************************************************************************)
RECURSIVE SumOver(_, _)
\* the sum of f[i] over the finite index set S
SumOver(S, f) ==
    IF S = {} THEN 0
    ELSE LET i == CHOOSE k \in S : TRUE IN f[i] + SumOver(S \ {i}, f)

\* the description contains the term when case is ignored
ContainsIgnoringCase(description, term) ==
    \E i \in 1..(Len(description) + 1) :
        /\ i + Len(term) - 1 <= Len(description)
        /\ \A k \in 1..Len(term) : LowerOf[description[i + k - 1]] = LowerOf[term[k]]

\* the positions of the items that pass the active filter
PassingItems ==
    {i \in 1..Len(items) :
        /\ ContainsIgnoringCase(items[i].description, searchTerm)
        /\ (categoryFilter = All \/ items[i].category = categoryFilter)}

\* C1: the group totals add up to the quantities of exactly the items that
\* pass the search term and the category filter, and each group's total is the
\* sum of its own members' quantities.
C1_TotalsEqualFilteredQuantities ==
    LET groups == groupedData
    IN  /\ SumOver(1..Len(groups), [k \in 1..Len(groups) |-> groups[k].totalQuantity])
             = SumOver(PassingItems, [i \in 1..Len(items) |-> items[i].quantity])
        /\ \A k \in 1..Len(groups) :
               groups[k].totalQuantity
                   = SumOver(1..Len(groups[k].items),
                             [j \in 1..Len(groups[k].items) |-> groups[k].items[j].quantity])

\* a search term that differs in case from the text it matches keeps one item
\* and drops another
C1_Witness ==
    /\ searchTerm = <<"B">>
    /\ \E i \in PassingItems : ~Includes(items[i].description, searchTerm)
    /\ PassingItems # 1..Len(items)
    /\ Len(groupedData) >= 1

\* the spreadsheet rows (1-based positions in dimRows) of the SUBTOTAL rows
SubtotalRows(dimRows) ==
    {p \in 1..Len(dimRows) :
        /\ Len(dimRows[p]) = 4
        /\ dimRows[p][1] = Blank
        /\ dimRows[p][2] = TextCell(Subtotal)
        /\ dimRows[p][4].t = "n"}

\* the k-th smallest element of a set of numbers
Nth(S, k) == CHOOSE p \in S : Cardinality({q \in S : q <= p}) = k

\* the address of column D of a spreadsheet row of the Dim Sheet
DimSheetD(row) == DimSheetRef \o <<"D">> \o NumStr(row)

\* C2: after the Dim Sheet is emitted, the address recorded under a group's
\* name is column D of the row of that same group's SUBTOTAL row.
C2_AddressIsOwnSubtotalRow ==
    emitted.written =>
        LET groups == groupedData
            rows   == SubtotalRows(emitted.dimRows)
        IN  /\ Cardinality(rows) = Len(groups)
            /\ \A k \in 1..Len(groups) :
                   /\ groups[k].name \in DOMAIN emitted.groupAddressMap
                   /\ emitted.groupAddressMap[groups[k].name] = DimSheetD(Nth(rows, k))

\* the BOQ rows that carry a rate: the group rows and the rebar-summary rows
AmountRows(boqRows) ==
    {p \in 2..Len(boqRows) : boqRows[p][4].t = "n"}

C4_AmountMultipliesOwnRow ==
    emitted.written =>
        LET rows == AmountRows(emitted.boqRows)
        IN  /\ Cardinality(rows) = Len(groupedData) + Len(rebarSummary)
            /\ \A p \in rows :
                   /\ DOMAIN emitted.boqRows[p][5] = {"t", "f"}
                   /\ emitted.boqRows[p][5].f
                        = <<"C">> \o NumStr(p) \o <<"*">> \o <<"D">> \o NumStr(p)

C4_Witness ==
    /\ emitted.written
    /\ Len(groupedData) >= 2
    /\ Len(rebarSummary) >= 2

\* C5: the grand-total cell is SUM(E2:En) with n the row of the last row
\* emitted before the trailing blank row; the range holds every amount cell
\* and not the grand-total cell.
C5_GrandTotalSpansAmountCells ==
    emitted.written =>
        LET boqRows == emitted.boqRows
            total   == Len(boqRows)
            n       == total - 2
        IN  /\ boqRows[total][1] = TextCell(GrandTotalLabel)
            /\ boqRows[total - 1] = BlankBoqRow
            /\ boqRows[total][5].f
                 = <<"S","U","M","(","E","2",":","E">> \o NumStr(n) \o <<")">>
            /\ AmountRows(boqRows) \subseteq 2..n
            /\ total \notin 2..n

C5_Witness ==
    /\ emitted.written
    /\ Len(groupedData) >= 1
    /\ Len(rebarSummary) >= 1
    /\ Cardinality(AmountRows(emitted.boqRows)) >= 2

\* the price stored under a name, 0 when none is stored
StoredPrice(name) == IF name \in DOMAIN unitPrices THEN unitPrices[name] ELSE 0

RebarBoqRow(k) == 1 + Len(groupedData) + 2 + k

\* the bar types of the batch
BarTypes == {rebarItems[i].barType : i \in 1..Len(rebarItems)}

\* C6: the criterion of the conditional sum of a rebar-summary row is exactly
\* the bar type the summary was aggregated from, and the formula sums column J
\* of the Rebar Schedule over the rows whose column C matches it.
C6_CriterionIsBarType ==
    emitted.written =>
        LET summary == rebarSummary
        IN  \A k \in 1..Len(summary) :
               \A type \in BarTypes :
                   summary[k].name = SummaryName(type) =>
                       emitted.boqRows[RebarBoqRow(k)][3].f
                           = SumIfHead \o type \o SumIfTail

\* a number of the pattern: an optional sign, digits with at most one point,
\* a digit last
IsNumberText(t) ==
    /\ t # <<>>
    /\ LET body == IF t[1] \in {"+", "-"} THEN Tail(t) ELSE t
       IN  /\ body # <<>>
           /\ \A i \in 1..Len(body) : IsDigit(body[i]) \/ body[i] = "."
           /\ Cardinality({i \in 1..Len(body) : body[i] = "."}) <= 1
           /\ IsDigit(body[Len(body)])

\* the first numeric token of a segment: the leftmost number, taken as far as
\* it reaches; <<>> when the segment holds none
FirstToken(segment) ==
    LET spans == {sp \in (1..Len(segment)) \X (1..Len(segment)) :
                     sp[1] <= sp[2] /\ IsNumberText(SubSeq(segment, sp[1], sp[2]))}
    IN  IF spans = {} THEN <<>>
        ELSE LET sp == CHOOSE a \in spans :
                          \A b \in spans : a[1] < b[1] \/ (a[1] = b[1] /\ a[2] >= b[2])
             IN  <<SubSeq(segment, sp[1], sp[2])>>

\* the segments between the separators x, X and *
Segments(dimension) ==
    LET cuts == {0, Len(dimension) + 1}
                    \cup {i \in 1..Len(dimension) : dimension[i] \in {"x", "X", "*"}}
    IN  [k \in 1..(Cardinality(cuts) - 1) |->
            SubSeq(dimension, Nth(cuts, k) + 1, Nth(cuts, k + 1) - 1)]

RECURSIVE Flatten(_)
Flatten(seqs) == IF seqs = <<>> THEN <<>> ELSE Head(seqs) \o Flatten(Tail(seqs))

\* the numeric tokens of a dimension text, left to right
Tokens(dimension) ==
    LET segs == Segments(dimension)
    IN  Flatten([k \in 1..Len(segs) |-> FirstToken(segs[k])])

\* the member items of the groups in emission order
Members ==
    LET groups == groupedData
    IN  Flatten([k \in 1..Len(groups) |-> groups[k].items])

\* the quantity cells of the value rows of the Dim Sheet in emission order
ValueCells(dimRows) ==
    LET rows == {p \in 1..Len(dimRows) :
                    /\ Len(dimRows[p]) = 4
                    /\ dimRows[p][2] = Blank
                    /\ dimRows[p][4].t = "n"}
    IN  [i \in 1..Cardinality(rows) |-> dimRows[Nth(rows, i)][4]]

\* the formula of a multiplier and tokens
ExpectedFormula(multiplier, tokens) ==
    JoinStr((IF multiplier # 1 THEN <<NumStr(multiplier)>> ELSE <<>>) \o tokens, <<"*">>)

\* C8: when a segment yields a numeric token, the formula is the multiplier,
\* present exactly when it differs from 1, then the first token of each
\* segment that has one, left to right, joined by *.
C8_FormulaIsMultiplierThenTokens ==
    emitted.written =>
        LET cells   == ValueCells(emitted.dimRows)
            members == Members
        IN  /\ Len(cells) = Len(members)
            /\ \A i \in 1..Len(members) :
                   Tokens(members[i].dimension) # <<>> =>
                       /\ "f" \in DOMAIN cells[i]
                       /\ cells[i].f = ExpectedFormula(members[i].timesing,
                                                       Tokens(members[i].dimension))

\* the same with a multiplier of 0 left out
FormulaIsNonZeroMultiplierThenTokens ==
    emitted.written =>
        LET cells   == ValueCells(emitted.dimRows)
            members == Members
        IN  /\ Len(cells) = Len(members)
            /\ \A i \in 1..Len(members) :
                   (Tokens(members[i].dimension) # <<>> /\ members[i].timesing # 0) =>
                       /\ "f" \in DOMAIN cells[i]
                       /\ cells[i].f = ExpectedFormula(members[i].timesing,
                                                       Tokens(members[i].dimension))

\* C9: when no segment of an item's dimension yields a numeric token, the
\* quantity cell of its value row is the plain number of the item's quantity
\* without a formula, and the rows that follow are still emitted.
C9_NoTokenGivesPlainQuantity ==
    emitted.written =>
        LET cells   == ValueCells(emitted.dimRows)
            members == Members
        IN  /\ Len(cells) = Len(members)
            /\ Cardinality(SubtotalRows(emitted.dimRows)) = Len(groupedData)
            /\ \A i \in 1..Len(members) :
                   Tokens(members[i].dimension) = <<>> =>
                       cells[i] = [t |-> "n", v |-> members[i].quantity]

\* an item without a token, then an item whose formula was synthesized
C9_Witness ==
    /\ emitted.written
    /\ Len(Members) = 2
    /\ Members[1].dimension # <<>>
    /\ Tokens(Members[1].dimension) = <<>>
    /\ "f" \notin DOMAIN ValueCells(emitted.dimRows)[1]
    /\ "f" \in DOMAIN ValueCells(emitted.dimRows)[2]

\* C10: the quantity cell of every value row carries the item's precomputed
\* quantity as its value, with or without a formula.
C10_ValueIsPrecomputedQuantity ==
    emitted.written =>
        LET cells   == ValueCells(emitted.dimRows)
            members == Members
        IN  /\ Len(cells) = Len(members)
            /\ \A i \in 1..Len(members) :
                   /\ "v" \in DOMAIN cells[i]
                   /\ cells[i].v = members[i].quantity

\* a formula with a multiplier whose tokens multiply to another number than
\* the quantity
C10_Witness ==
    /\ emitted.written
    /\ \E i \in 1..Len(Members) :
           /\ Members[i].timesing = 2
           /\ "f" \in DOMAIN ValueCells(emitted.dimRows)[i]
           /\ ValueCells(emitted.dimRows)[i].f = <<"2","*","1","*","2">>
           /\ ValueCells(emitted.dimRows)[i].v = 7


(***************************************************************************)
(* The classifier                                                          *)
(***************************************************************************)
\* the segments of the description of item k
SegmentsOf(k) == SplitStr(items[k].description, Delim)

\* the location the pass gave to the only item of the batch
LocationOfOnlyItem == groupedData[1].items[1].axis

\* C11: a description of three or more segments gets its last segment as the
\* location and the earlier segments, rejoined with ' - ', as the group
\* name, so that name + ' - ' + location is the description again.
C11_LastSegmentIsLocation ==
    (Len(items) = 1 /\ Len(SegmentsOf(1)) >= 3) =>
        LET parts == SegmentsOf(1)
            group == groupedData[1]
        IN  /\ LocationOfOnlyItem = parts[Len(parts)]
            /\ group.name = JoinStr(SubSeq(parts, 1, Len(parts) - 1), Delim)
            /\ group.name \o Delim \o LocationOfOnlyItem = items[1].description

\* C11 as amended: the location is the last segment unless that segment is
\* empty, and then it is 'General'; the group name with ' - ' and the last
\* segment is the description again.
C11_LastSegmentOrGeneralIsLocation ==
    (Len(items) = 1 /\ Len(SegmentsOf(1)) >= 3) =>
        LET parts == SegmentsOf(1)
            last  == parts[Len(parts)]
            group == groupedData[1]
        IN  /\ last # <<>> => LocationOfOnlyItem = last
            /\ last = <<>> => LocationOfOnlyItem = General
            /\ group.name = JoinStr(SubSeq(parts, 1, Len(parts) - 1), Delim)
            /\ group.name \o Delim \o last = items[1].description

\* a workbook written for a description of three segments whose first and
\* last segments are not empty
C11_Witness ==
    /\ emitted.written
    /\ Len(items) = 1
    /\ Len(SegmentsOf(1)) = 3
    /\ SegmentsOf(1)[1] # <<>>
    /\ LocationOfOnlyItem = SegmentsOf(1)[3]
    /\ LocationOfOnlyItem # <<>>
    /\ groupedData[1].name = SegmentsOf(1)[1] \o Delim \o SegmentsOf(1)[2]

\* C12: every description is classified; with exactly two segments the
\* first is the group name and the second the location, and without the
\* delimiter the whole description is the group name and the location is
\* 'General'.
C12_ClassifierIsTotal ==
    Len(items) = 1 =>
        LET parts == SegmentsOf(1)
            group == groupedData[1]
        IN  /\ Len(groupedData) = 1
            /\ Len(group.items) = 1
            /\ Len(parts) = 2 =>
                   group.name = parts[1] /\ LocationOfOnlyItem = parts[2]
            /\ ~Includes(items[1].description, Delim) =>
                   group.name = items[1].description /\ LocationOfOnlyItem = General

\* a workbook written for a description of two segments, the second one
\* not empty
C12_Witness ==
    /\ emitted.written
    /\ Len(items) = 1
    /\ Len(SegmentsOf(1)) = 2
    /\ groupedData[1].name = SegmentsOf(1)[1]
    /\ LocationOfOnlyItem = SegmentsOf(1)[2]
    /\ LocationOfOnlyItem # <<>>

(***************************************************************************)
(* The grouping engine                                                     *)
(***************************************************************************)
\* the (group name, unit, category) triple of an item or of a member
TripleOf(item) ==
    <<ParseDescription(item.description).groupName, item.unit, item.category>>

\* C13: passing items share a group if and only if their (group name, unit,
\* category) triples are equal: every member of a group has the triple of
\* its group, and there is exactly one group per triple of a passing item.
C13_OneGroupPerTriple ==
    LET groups == groupedData
    IN  /\ \A g \in 1..Len(groups) : \A k \in 1..Len(groups[g].items) :
               TripleOf(groups[g].items[k])
                   = <<groups[g].name, groups[g].unit, groups[g].category>>
        /\ Len(groups) = Cardinality({TripleOf(items[i]) : i \in PassingItems})

\* the same statement for batches whose names and units hold no '|'
OneGroupPerTripleWithoutBar ==
    (\A i \in 1..Len(items) :
        "|" \notin Range(items[i].description) \cup Range(items[i].unit))
    => C13_OneGroupPerTriple

\* the priority of a category: its place in the canonical table, and one
\* place after the table for a category that is not in it
Priority(category) ==
    IF \E i \in 1..Len(CATEGORY_ORDER) : CATEGORY_ORDER[i] = category
    THEN CHOOSE i \in 1..Len(CATEGORY_ORDER) : CATEGORY_ORDER[i] = category
    ELSE Len(CATEGORY_ORDER) + 1

\* C14: in the sorted group list the category priority never decreases, a
\* category absent from the canonical table ranking after every known one.
C14_SortedByCategoryPriority ==
    LET groups == groupedData
    IN  \A i, j \in 1..Len(groups) :
            i < j => Priority(groups[i].category) <= Priority(groups[j].category)

\* a workbook written for a batch that starts with an unlisted category and
\* goes on with two listed categories in the reverse of the table's order
C14_Witness ==
    /\ emitted.written
    /\ Len(items) = 3
    /\ Len(groupedData) = 3
    /\ Priority(items[1].category) > Len(CATEGORY_ORDER)
    /\ Priority(items[3].category) < Priority(items[2].category)
    /\ Priority(items[2].category) <= Len(CATEGORY_ORDER)
    /\ groupedData[1].category = items[3].category
    /\ groupedData[3].category = items[1].category

\* the position in the batch of the first member of a group
FirstSeen(group) ==
    CHOOSE i \in 1..Len(items) :
        /\ TripleOf(items[i]) = <<group.name, group.unit, group.category>>
        /\ \A j \in 1..(i - 1) :
               TripleOf(items[j]) # <<group.name, group.unit, group.category>>

\* C15: groups whose categories are absent from the canonical table stay in
\* the order in which their first items appear in the batch.
C15_UnknownCategoriesKeepEncounterOrder ==
    LET groups == groupedData
    IN  \A i, j \in 1..Len(groups) :
            (/\ i < j
             /\ Priority(groups[i].category) > Len(CATEGORY_ORDER)
             /\ Priority(groups[j].category) > Len(CATEGORY_ORDER))
            => FirstSeen(groups[i]) < FirstSeen(groups[j])

(***************************************************************************)
(* The cost calculator                                                     *)
(***************************************************************************)
\* raw is the text of a whole number: blanks around an optional sign and
\* one or more digits
IsNumericText(raw) ==
    \E i, j \in 1..Len(raw) :
        /\ i <= j
        /\ \A k \in 1..(i - 1) : raw[k] = " "
        /\ \A k \in (j + 1)..Len(raw) : raw[k] = " "
        /\ LET first == IF raw[i] \in {"+", "-"} THEN i + 1 ELSE i
           IN  first <= j /\ \A k \in first..j : raw[k] \in DigitSet

\* the step of the price handler called with (name, raw)
PriceStep(name, raw) ==
    /\ unitPrices' = SetPrice(unitPrices, name, raw)
    /\ emitted' = NoWorkbook

HasLeadingNumber(raw) ==
    \E i \in 1..Len(raw) :
        /\ \A k \in 1..(i - 1) : raw[k] = " "
        /\ \/ raw[i] \in DigitSet
           \/ raw[i] \in {"+", "-"} /\ i < Len(raw) /\ raw[i + 1] \in DigitSet

\* the price handler stores 0 for every raw input without a leading number
InputWithoutLeadingNumberStoresZero ==
    [][\A name \in DisplayedNames, raw \in RawInputs :
          PriceStep(name, raw) =>
              /\ name \in DOMAIN unitPrices'
              /\ unitPrices'[name] \in Int
              /\ ~HasLeadingNumber(raw) => unitPrices'[name] = 0]_vars

\* C18: every rate stored in the unit-price map is non-negative, and so is
\* every rate used for the grand total and written to a BOQ rate cell.
C18_StoredRatesAreNonNegative ==
    /\ \A name \in DOMAIN unitPrices : unitPrices[name] >= 0
    /\ \A name \in DisplayedNames : RateOf(unitPrices, name) >= 0
    /\ emitted.written =>
           \A r \in 1..Len(emitted.boqRows) :
               "v" \in DOMAIN emitted.boqRows[r][4] => emitted.boqRows[r][4].v >= 0

(***************************************************************************)
(* The rebar aggregator                                                    *)
(***************************************************************************)
\* the positions of the rebar records of a bar type
RecordsOfType(type) == {i \in 1..Len(rebarItems) : rebarItems[i].barType = type}

TotalWeights == [i \in 1..Len(rebarItems) |-> rebarItems[i].totalWeight]

\* C19: there is exactly one rebar summary per distinct bar type of the
\* batch; its weight is the sum of totalWeight over the records of that bar
\* type, its unit is 'kg' and its name is 'Reinforcement Bars (Type
\* {barType})'; the summary weights add up to the weight of the whole batch.
C19_OneSummaryPerBarType ==
    LET summary == rebarSummary
    IN  /\ Len(summary) = Cardinality(BarTypes)
        /\ \A type \in BarTypes :
               \E k \in 1..Len(summary) :
                   /\ summary[k].name
                        = <<"R","e","i","n","f","o","r","c","e","m","e","n","t"," ",
                            "B","a","r","s"," ","(","T","y","p","e"," ">>
                             \o type \o <<")">>
                   /\ summary[k].unit = <<"k","g">>
                   /\ summary[k].totalQuantity = SumOver(RecordsOfType(type), TotalWeights)
        /\ SumOver(1..Len(summary), [k \in 1..Len(summary) |-> summary[k].totalQuantity])
             = SumOver(1..Len(rebarItems), TotalWeights)

\* a workbook written for a batch in which two records of one bar type, of
\* different members, stand around a record of another bar type
C19_Witness ==
    /\ emitted.written
    /\ Len(rebarItems) = 3
    /\ rebarItems[1].barType = rebarItems[3].barType
    /\ rebarItems[1].barType # rebarItems[2].barType
    /\ rebarItems[1].member # rebarItems[3].member
    /\ Len(rebarSummary) = 2
    /\ \E k \in 1..2 :
           rebarSummary[k].totalQuantity
               = rebarItems[1].totalWeight + rebarItems[3].totalWeight

(***************************************************************************)
(* The cells of the workbook                                               *)
(***************************************************************************)
\* a cell is a literal, or a formula that carries a cached value
IsLiteralOrCachedFormula(cell) ==
    "f" \in DOMAIN cell => "v" \in DOMAIN cell

\* every cell of a sheet is a literal or a formula with a cached value
SheetIsCached(rows) ==
    \A r \in 1..Len(rows) : \A c \in 1..Len(rows[r]) :
        IsLiteralOrCachedFormula(rows[r][c])

\* C20: every cell of the emitted workbook, in all three sheets, is either a
\* literal value or a formula that also carries a cached fallback value.
C20_EveryFormulaCarriesCachedValue ==
    emitted.written =>
        /\ SheetIsCached(emitted.dimRows)
        /\ SheetIsCached(emitted.rebarRows)
        /\ SheetIsCached(emitted.boqRows)

\* the same statement for the Dim Sheet and the Rebar Schedule alone
DimAndRebarSheetsAreCached ==
    emitted.written =>
        /\ SheetIsCached(emitted.dimRows)
        /\ SheetIsCached(emitted.rebarRows)

(***************************************************************************)
(* The layout of the Dim Sheet                                             *)
(***************************************************************************)
\* the row of the Dim Sheet (1-based) that holds the SUBTOTAL of group k
SubtotalRowOf(k) == Nth(SubtotalRows(emitted.dimRows), k)

\* the row of the name header of group k: above its members' two rows each
NameRowOf(k) == SubtotalRowOf(k) - 2 * Len(groupedData[k].items) - 1

\* the last row of what precedes group k: the sheet header, or the spacer
\* under the previous group's SUBTOTAL
EndOfPrevious(k) == IF k = 1 THEN 1 ELSE SubtotalRowOf(k - 1) + 1

CategoryHeaderRow(category) ==
    <<Blank, TextCell(ToUpperCase(category)), Blank, Blank>>

\* C21: a category-header row stands immediately before the name-header row
\* of a group exactly when the group is the first emitted group or its
\* category differs from that of the group emitted before it, and the sheet
\* holds no other category-header row.
C21_HeaderExactlyOnCategoryChange ==
    emitted.written =>
        LET groups == groupedData
            rows   == emitted.dimRows
        IN  /\ Cardinality(SubtotalRows(rows)) = Len(groups)
            /\ Len(rows) = IF Len(groups) = 0 THEN 1
                            ELSE SubtotalRowOf(Len(groups)) + 1
            /\ \A k \in 1..Len(groups) :
                   /\ rows[NameRowOf(k)] = <<Blank, TextCell(groups[k].name), Blank, Blank>>
                   /\ IF k = 1 \/ groups[k].category # groups[k - 1].category
                      THEN /\ NameRowOf(k) = EndOfPrevious(k) + 2
                           /\ rows[NameRowOf(k) - 1] = CategoryHeaderRow(groups[k].category)
                      ELSE NameRowOf(k) = EndOfPrevious(k) + 1

\* the same statement with the first group taken as a change from the
\* empty category
HeaderExactlyOnChangeFromEmpty ==
    emitted.written =>
        LET groups == groupedData
            rows   == emitted.dimRows
        IN  /\ Cardinality(SubtotalRows(rows)) = Len(groups)
            /\ Len(rows) = IF Len(groups) = 0 THEN 1
                            ELSE SubtotalRowOf(Len(groups)) + 1
            /\ \A k \in 1..Len(groups) :
                   LET previous == IF k = 1 THEN <<>> ELSE groups[k - 1].category
                   IN  /\ rows[NameRowOf(k)]
                            = <<Blank, TextCell(groups[k].name), Blank, Blank>>
                       /\ IF groups[k].category # previous
                          THEN /\ NameRowOf(k) = EndOfPrevious(k) + 2
                               /\ rows[NameRowOf(k) - 1]
                                    = CategoryHeaderRow(groups[k].category)
                          ELSE NameRowOf(k) = EndOfPrevious(k) + 1

(***************************************************************************)
(* The order of the groups                                                 *)
(***************************************************************************)
\* C22: two groups of equal category priority stand in ascending
\* alphabetical order of their names, and two groups equal in priority and
\* in name stand in the order in which they were first met in the batch.
C22_EqualPriorityOrderedByName ==
    LET groups == groupedData
    IN  \A i, j \in 1..Len(groups) :
            (i < j /\ Priority(groups[i].category) = Priority(groups[j].category))
            => /\ LocaleCompare(groups[i].name, groups[j].name) <= 0
               /\ groups[i].name = groups[j].name
                    => FirstSeen(groups[i]) < FirstSeen(groups[j])

\* a workbook written for two groups of one category met in the reverse of
\* the alphabetical order of their names
C22_Witness ==
    /\ emitted.written
    /\ Len(items) = 2
    /\ Len(groupedData) = 2
    /\ items[1].category = items[2].category
    /\ groupedData[1].name # groupedData[2].name
    /\ FirstSeen(groupedData[1]) = 2
    /\ FirstSeen(groupedData[2]) = 1

\* two groups of one category and one name, told apart by their units
SameNameGroupsOccur ==
    /\ Len(groupedData) = 2
    /\ groupedData[1].category = groupedData[2].category
    /\ groupedData[1].name = groupedData[2].name

(***************************************************************************)
(* The Rebar Schedule                                                      *)
(***************************************************************************)
\* C23: after its header row the Rebar Schedule holds exactly one row per
\* record of the rebar batch, in the order of the batch, whatever the search
\* term and the category filter: the search that narrows the on-screen
\* rebar table removes no row from the exported schedule.
C23_ScheduleHoldsEveryRecordInOrder ==
    emitted.written =>
        LET rows == emitted.rebarRows
        IN  /\ Len(rows) = 1 + Len(rebarItems)
            /\ \A i \in 1..Len(rebarItems) :
                   /\ Len(rows[i + 1]) = 10
                   /\ rows[i + 1][1] = TextCell(rebarItems[i].member)
                   /\ rows[i + 1][2] = TextCell(rebarItems[i].id)
                   /\ rows[i + 1][3] = TextCell(rebarItems[i].barType)
                   /\ rows[i + 1][4] = TextCell(rebarItems[i].shapeCode)
                   /\ rows[i + 1][10] = createNumberCell(rebarItems[i].totalWeight)

\* a workbook written while the search term and the category filter hide
\* every record of a batch of three from the on-screen table
C23_Witness ==
    /\ emitted.written
    /\ Len(rebarItems) = 3
    /\ searchTerm # <<>>
    /\ categoryFilter # All
    /\ filteredRebar = <<>>
    /\ Len(emitted.rebarRows) = 4

(***************************************************************************)
(* The empty Bill of Quantities                                            *)
(***************************************************************************)
\* `SUM(E${first}:E${last})`
SumRange(first, last) ==
    <<"S","U","M","(","E">> \o NumStr(first) \o <<":","E">> \o NumStr(last) \o <<")">>

\* C24: when no item passes the filter and the rebar batch is empty, the
\* Bill of Quantities is the header row, a blank row and the grand-total
\* row, and the grand-total formula is a sum over a range of column E whose
\* first row is not greater than its last row.
C24_EmptyBoqHasWellFormedTotal ==
    (emitted.written /\ Len(groupedData) = 0 /\ rebarItems = <<>>) =>
        LET rows == emitted.boqRows
        IN  /\ Len(rows) = 3
            /\ rows[1] = BoqHeader
            /\ rows[2] = BlankBoqRow
            /\ rows[3][1] = TextCell(GrandTotalLabel)
            /\ "f" \in DOMAIN rows[3][5]
            /\ \E first \in 1..3, last \in 1..3 :
                   first <= last /\ rows[3][5].f = SumRange(first, last)

\* the same statement with the range the export writes, E2 to E1
EmptyBoqTotalIsSumE2ToE1 ==
    (emitted.written /\ Len(groupedData) = 0 /\ rebarItems = <<>>) =>
        LET rows == emitted.boqRows
        IN  /\ Len(rows) = 3
            /\ rows[1] = BoqHeader
            /\ rows[2] = BlankBoqRow
            /\ rows[3][1] = TextCell(GrandTotalLabel)
            /\ "f" \in DOMAIN rows[3][5]
            /\ rows[3][5].f = SumRange(2, 1)

(***************************************************************************)
(* The workbook evaluated                                                  *)
(***************************************************************************)
\* the value of the cell of the Dim Sheet that a reference names
ResolveDimRef(ref) ==
    LET rows == emitted.dimRows
        p    == CHOOSE q \in 1..Len(rows) : ref = DimSheetD(q)
    IN  rows[p][4].v

\* SUMIF over the Rebar Schedule: column J summed over the rows whose
\* column C is the criterion between the quotes of the formula
EvaluateSumIf(formula) ==
    LET criterion == SubSeq(formula, Len(SumIfHead) + 1, Len(formula) - Len(SumIfTail))
        rows      == emitted.rebarRows
        matching  == {r \in 2..Len(rows) : rows[r][3] = TextCell(criterion)}
    IN  SumOver(matching, [r \in 1..Len(rows) |-> IF r \in matching THEN rows[r][10].v ELSE 0])

\* the value of the quantity cell of row p of the BOQ
EvaluatedQuantity(p) ==
    LET cell == emitted.boqRows[p][3]
    IN  IF "f" \notin DOMAIN cell THEN cell.v
        ELSE IF SubSeq(cell.f, 1, Len(DimSheetRef)) = DimSheetRef
        THEN ResolveDimRef(cell.f)
        ELSE EvaluateSumIf(cell.f)

\* the value of the grand-total cell: the amounts C*D of the priced rows
EvaluatedGrandTotal ==
    LET rows == emitted.boqRows
    IN  SumOver(AmountRows(rows),
                [p \in 1..Len(rows) |->
                    IF p \in AmountRows(rows)
                    THEN EvaluatedQuantity(p) * rows[p][4].v ELSE 0])

\* C25: the quantity reference of every group row of the BOQ, resolved
\* against the emitted Dim Sheet, gives that group's totalQuantity, and the
\* evaluated grand total of the workbook is the on-screen grand total.
C25_WorkbookTotalsMatchScreen ==
    emitted.written =>
        LET groups == groupedData
        IN  /\ \A k \in 1..Len(groups) :
                   EvaluatedQuantity(k + 1) = groups[k].totalQuantity
            /\ EvaluatedGrandTotal = grandTotalCost

\* the same statement for passes whose groups have different names
WorkbookTotalsMatchScreenForDistinctNames ==
    (\A i, j \in 1..Len(groupedData) :
        i # j => groupedData[i].name # groupedData[j].name)
    => C25_WorkbookTotalsMatchScreen

\* a workbook written with a priced group and a priced rebar summary whose
\* evaluated grand total is not 0
PricedWorkbookIsEvaluated ==
    /\ emitted.written
    /\ Len(groupedData) >= 1
    /\ Len(rebarSummary) = 2
    /\ EvaluatedGrandTotal = grandTotalCost
    /\ \A name \in DisplayedNames : StoredPrice(name) # 0

(***************************************************************************)
(* The categories of the sorted list                                       *)
(***************************************************************************)
\* C26: in the sorted group list the groups of one category are contiguous,
\* so the header row of a category stands at most once in the Dim Sheet,
\* for categories of the canonical table and for categories absent from it.
C26_CategoriesAreContiguous ==
    LET groups == groupedData
    IN  /\ \A i, j, k \in 1..Len(groups) :
               (i < j /\ j < k /\ groups[i].category = groups[k].category)
               => groups[j].category = groups[i].category
        /\ emitted.written =>
               \A g \in 1..Len(groups) :
                   Cardinality({p \in 1..Len(emitted.dimRows) :
                                   emitted.dimRows[p] = CategoryHeaderRow(groups[g].category)})
                       <= 1

\* the same statement for batches whose categories are all in the
\* canonical table but at most one
CategoriesAreContiguousWithOneUnlisted ==
    Cardinality({items[i].category : i \in 1..Len(items)} \ Range(CATEGORY_ORDER)) <= 1
    => C26_CategoriesAreContiguous

(***************************************************************************)
(* The multiplier of the logic row and of the formula                      *)
(***************************************************************************)
\* the multiplier cells of the logic rows of the Dim Sheet in emission order
LogicCells(dimRows) ==
    LET rows == {p \in 1..Len(dimRows) :
                    /\ Len(dimRows[p]) = 4
                    /\ dimRows[p][1].t = "n"}
    IN  [i \in 1..Cardinality(rows) |-> dimRows[Nth(rows, i)][1]]

\* C27: for every member whose formula is synthesized, the formula has a
\* leading multiplier m exactly when the member's logic row shows a
\* multiplier m different from 1.
C27_LogicRowShowsFormulaMultiplier ==
    emitted.written =>
        LET cells   == ValueCells(emitted.dimRows)
            logic   == LogicCells(emitted.dimRows)
            members == Members
        IN  /\ Len(cells) = Len(members)
            /\ Len(logic) = Len(members)
            /\ \A i \in 1..Len(members) :
                   "f" \in DOMAIN cells[i] =>
                       cells[i].f = ExpectedFormula(logic[i].v, Tokens(members[i].dimension))

\* the same statement for the members whose multiplier is not negative
LogicRowShowsNonNegativeFormulaMultiplier ==
    emitted.written =>
        LET cells   == ValueCells(emitted.dimRows)
            logic   == LogicCells(emitted.dimRows)
            members == Members
        IN  /\ Len(cells) = Len(members)
            /\ Len(logic) = Len(members)
            /\ \A i \in 1..Len(members) :
                   ("f" \in DOMAIN cells[i] /\ members[i].timesing >= 0) =>
                       cells[i].f = ExpectedFormula(logic[i].v, Tokens(members[i].dimension))

(***************************************************************************)
(* What the handlers leave alone                                           *)
(***************************************************************************)
\* C28: a change of the search term or of the category filter leaves the
\* unit-price map and the rebar summary unchanged, and a change of the
\* unit-price map touches the price of one name only and leaves every
\* other price, the grouped data and the rebar summary unchanged.
C28_HandlersChangeOnlyTheirOwnState ==
    [][/\ (searchTerm' # searchTerm \/ categoryFilter' # categoryFilter)
           => /\ unitPrices' = unitPrices
              /\ RebarSummaryOf(rebarItems') = RebarSummaryOf(rebarItems)
       /\ unitPrices' # unitPrices
           => /\ \E name \in DisplayedNames :
                    /\ DOMAIN unitPrices' = DOMAIN unitPrices \cup {name}
                    /\ \A n \in DOMAIN unitPrices \ {name} :
                           unitPrices'[n] = unitPrices[n]
              /\ GroupedDataOf(items', searchTerm', categoryFilter')
                   = GroupedDataOf(items, searchTerm, categoryFilter)
              /\ RebarSummaryOf(rebarItems') = RebarSummaryOf(rebarItems)]_vars

\* two names are priced while a search term and a category filter are set
C28_Witness ==
    /\ Cardinality(DOMAIN unitPrices) >= 2
    /\ searchTerm # <<>>
    /\ categoryFilter # All
    /\ Len(groupedData) >= 1
    /\ Len(rebarSummary) >= 1

(***************************************************************************)
(* The App                                                                 *)
(***************************************************************************)
\* C29: in every reachable state of the App, appState = RESULTS implies
\* that takeoffData and uploadedFile are both non-null, so that the results
\* view is rendered.
C29_ResultsStateHasDataAndFile ==
    appState = "RESULTS" => (takeoffData # Null /\ uploadedFile # Null)

\* C30: whenever the results view is shown, the takeoff data it displays
\* was produced by analysing the file stored as uploadedFile.
C30_ShownDataIsOfUploadedFile ==
    ResultsShown => takeoffData = TakeoffOf(uploadedFile.data)

\* both statements while at most one file has been handed over
SingleSelectionShowsItsOwnData ==
    selected <= 1 => (C29_ResultsStateHasDataAndFile /\ C30_ShownDataIsOfUploadedFile)

====
